---- MODULE Spec2Model ----
(***************************************************************************)
(* Sparse matrix programs of the repository.                               *)
(*                                                                         *)
(* The repository holds two copies of the SparseMatrix class with its      *)
(* interactive driver:                                                     *)
(*   "main"   : src/main.py                                                *)
(*   "matrix" : src/matrix/code/src/main.py                                *)
(* The variable impl says which of the two programs is running.  The       *)
(* definitions of src/main.py keep the source's names; those of            *)
(* src/matrix/code/src/main.py that would clash carry the prefix m_.       *)
(*                                                                         *)
(* Text is a sequence of one-character strings, a file is the sequence of  *)
(* lines readlines() returns (each line with its newline).  A dict is a    *)
(* function from its keys <<row, col>> to values.  Matrix instances and    *)
(* their dicts live in a heap, so that sharing is something the model can  *)
(* express.                                                                *)
(***************************************************************************)
EXTENDS Integers, Sequences, FiniteSets, TLC

VARIABLES impl, heap, matrix1, matrix2, result, output_file, last, steps

vars == <<impl, heap, matrix1, matrix2, result, output_file, last, steps>>

\* ------------------------------------------------------------------ bounds
\* set_element is called with row, col in -1 .. MaxIdx and value in -MaxVal .. MaxVal
MaxIdx == 2
MaxVal == 1
\* the number of operations of one run
MaxSteps == 2

\* ------------------------------------------------------------------- text
\* v bound to the parameter of Op: a local name for a value used repeatedly
With(v, Op(_)) == Op(v)

Digits == <<"0", "1", "2", "3", "4", "5", "6", "7", "8", "9">>

IsDigit(c) == \E i \in 1..10 : Digits[i] = c

DigitVal(c) == (CHOOSE i \in 1..10 : Digits[i] = c) - 1

\* str.strip() removes leading and trailing whitespace
IsSpace(c) == c \in {" ", "\n", "\t", "\r"}

RECURSIVE lstrip(_)
lstrip(s) ==
  IF s # <<>> /\ IsSpace(Head(s)) THEN lstrip(Tail(s)) ELSE s

RECURSIVE rstrip(_)
rstrip(s) ==
  IF s # <<>> /\ IsSpace(s[Len(s)]) THEN rstrip(SubSeq(s, 1, Len(s) - 1)) ELSE s

strip(s) == rstrip(lstrip(s))

startswith(s, c) == s # <<>> /\ Head(s) = c

endswith(s, c) == s # <<>> /\ s[Len(s)] = c

\* str.split(sep) for a one-character separator: the list of the pieces
\* between the separators (one more piece than there are separators)
RECURSIVE splitFrom(_, _, _)
splitFrom(s, sep, cur) ==
  IF s = <<>> THEN <<cur>>
  ELSE IF Head(s) = sep THEN <<cur>> \o splitFrom(Tail(s), sep, <<>>)
  ELSE splitFrom(Tail(s), sep, Append(cur, Head(s)))

split(s, sep) == splitFrom(s, sep, <<>>)

\* the value of a string of digits
RECURSIVE digitsValue(_, _)
digitsValue(s, acc) ==
  IF s = <<>> THEN acc ELSE digitsValue(Tail(s), 10 * acc + DigitVal(Head(s)))

\* int(s): surrounding whitespace is ignored, an optional sign, then at least
\* one digit and nothing else; anything else raises ValueError
intStripped(t) ==
  IF t # <<>> /\ Head(t) \in {"-", "+"}
  THEN IF Len(t) > 1 /\ \A i \in 2..Len(t) : IsDigit(t[i])
       THEN [exc |-> "none",
             val |-> IF Head(t) = "-" THEN 0 - digitsValue(Tail(t), 0)
                     ELSE digitsValue(Tail(t), 0)]
       ELSE [exc |-> "ValueError", val |-> 0]
  ELSE IF t # <<>> /\ \A i \in 1..Len(t) : IsDigit(t[i])
       THEN [exc |-> "none", val |-> digitsValue(t, 0)]
       ELSE [exc |-> "ValueError", val |-> 0]

int(s) == intStripped(strip(s))

\* the decimal digits of a natural number
RECURSIVE natStr(_)
natStr(n) ==
  IF n < 10 THEN <<Digits[n + 1]>> ELSE Append(natStr(n \div 10), Digits[(n % 10) + 1])

\* f"{n}" of an int
str(n) == IF n < 0 THEN <<"-">> \o natStr(0 - n) ELSE natStr(n)

\* ------------------------------------------------------------ input files
Rows2 == <<"r", "o", "w", "s", "=", "2", "\n">>
Cols2 == <<"c", "o", "l", "s", "=", "2", "\n">>

\* the tuple line "(a,b,c)\n"
Triple(a, b, c) == <<"(">> \o str(a) \o <<",">> \o str(b) \o <<",">> \o str(c) \o <<")", "\n">>

\* the input files of the runs: well-formed ones, and one for each way a
\* file can be wrong
Files ==
  << \* 1: the 2x2 example of the format
     <<Rows2, Cols2, Triple(0, 0, 5), Triple(1, 1, -3)>>,
     \* 2: a 1x3 row of ones
     << <<"r", "o", "w", "s", "=", "1", "\n">>, <<"c", "o", "l", "s", "=", "3", "\n">>,
        Triple(0, 0, 1), Triple(0, 1, 1), Triple(0, 2, 1) >>,
     \* 3: a 3x1 column 1, -1, 1
     << <<"r", "o", "w", "s", "=", "3", "\n">>, <<"c", "o", "l", "s", "=", "1", "\n">>,
        Triple(0, 0, 1), Triple(1, 0, -1), Triple(2, 0, 1) >>,
     \* 4: a good line, a blank line, then a line of two values
     <<Rows2, Cols2, Triple(0, 0, 1), <<"\n">>, <<"(", "1", ",", "2", ")", "\n">> >>,
     \* 5: a good line, then a coordinate outside the declared 2x2
     <<Rows2, Cols2, Triple(0, 1, 2), Triple(5, 0, 1)>>,
     \* 6: whitespace inside a tuple, and a zero value
     <<Rows2, Cols2, <<"(", "0", ",", " ", "0", ",", " ", "1", ")", "\n">>, Triple(1, 1, 0)>>,
     \* 7: a header line without "="
     << <<"r", "o", "w", "s", " ", "2", "\n">>, Cols2, Triple(0, 0, 1) >>,
     \* 8: a file of one line
     << Rows2 >>,
     \* 9: a negative coordinate
     << Rows2, Cols2, Triple(-1, 0, 1) >>
  >>

\* ------------------------------------------------------------------- heap
\* the number of matrix instances (and of dicts) alive at once: the three the
\* driver holds and the one under construction
MaxObjs == 4

ObjIds == 1..MaxObjs

\* Python's None, as a reference and as an attribute value
None == 0
NoneAttr == "None"

EmptyHeap == [objs |-> [o \in {} |-> 0], dicts |-> [d \in {} |-> 0]]

\* {} : a dict without items
EmptyDict == [k \in {} |-> 0]

\* d[k] = v
Put(d, k, v) == [x \in (DOMAIN d) \cup {k} |-> IF x = k THEN v ELSE d[x]]

\* del d[k]
Del(d, k) == [x \in (DOMAIN d) \ {k} |-> d[x]]

\* the least identifier that is not in use
FreshId(used) == CHOOSE i \in ObjIds \ used : \A j \in ObjIds \ used : i <= j

\* the items of the dict of instance self
Data(h, self) == h.dicts[h.objs[self].data]

\* the keys of a set in ascending (row, col) order
RECURSIVE KeysInOrder(_)
KeysInOrder(S) ==
  IF S = {} THEN <<>>
  ELSE With(CHOOSE x \in S : \A y \in S : x[1] < y[1] \/ (x[1] = y[1] /\ x[2] <= y[2]),
            LAMBDA k : <<k>> \o KeysInOrder(S \ {k}))

\* every order in which the keys of a dict can be iterated (a dict iterates
\* in insertion order, and every order of its keys is an insertion order)
Orders(S) ==
  {s \in [1..Cardinality(S) -> S] : \A i, j \in 1..Cardinality(S) : s[i] = s[j] => i = j}

\* what remains of the heap once the instances no root refers to are freed
Collect(h, roots) ==
  [objs |-> [o \in (DOMAIN h.objs) \cap roots |-> h.objs[o]],
   dicts |-> [d \in {h.objs[o].data : o \in (DOMAIN h.objs) \cap roots} \cap DOMAIN h.dicts
                |-> h.dicts[d]]]

\* the heap with a new instance self whose dict d is empty
Alloc(h, self, d, num_rows, num_cols) ==
  [objs |-> Put(h.objs, self, [num_rows |-> num_rows, num_cols |-> num_cols, data |-> d]),
   dicts |-> Put(h.dicts, d, EmptyDict)]

\* how a call ends: normally, or raising exception e; h is the heap it leaves
Ok(h) == [h |-> h, exc |-> "none"]

Raise(h, e) == [h |-> h, exc |-> e]

\* the statements K after a call that ended as r: skipped when it raised
Then(r, K(_)) == IF r.exc # "none" THEN r ELSE K(r.h)



\* ------------------------------------------------- src/main.py SparseMatrix
get_element(h, self, row, col) ==
  IF <<row, col>> \in DOMAIN Data(h, self) THEN Data(h, self)[<<row, col>>] ELSE 0

\* a set_element that leaves a stored entry in place when it is given 0
\* (MultiplyExact does not hold of it)
set_element_keeps_entry(h, self, row, col, value) ==
  IF row < 0 \/ row >= h.objs[self].num_rows \/ col < 0 \/ col >= h.objs[self].num_cols
  THEN Raise(h, "IndexError")
  ELSE IF value = 0
  THEN Ok(h)
  ELSE Ok([h EXCEPT !.dicts[h.objs[self].data] = Put(@, <<row, col>>, value)])

set_element(h, self, row, col, value) ==
  IF row < 0 \/ row >= h.objs[self].num_rows \/ col < 0 \/ col >= h.objs[self].num_cols
  THEN Raise(h, "IndexError")
  ELSE IF value = 0
  THEN IF <<row, col>> \in DOMAIN Data(h, self)
       THEN Ok([h EXCEPT !.dicts[h.objs[self].data] = Del(@, <<row, col>>)])
       ELSE Ok(h)
  ELSE Ok([h EXCEPT !.dicts[h.objs[self].data] = Put(@, <<row, col>>, value)])

\* row, col, value = map(int, parts); self.set_element(row, col, value)
loadParts(h, self, row, col, value) ==
  IF row.exc # "none" \/ col.exc # "none" \/ value.exc # "none"
  THEN Raise(h, "ValueError")
  ELSE set_element(h, self, row.val, col.val, value.val)

\* the body of the loop of _load_from_file for one stripped, non-empty line
loadLine(h, self, line) ==
  IF ~(startswith(line, "(") /\ endswith(line, ")")) THEN Raise(h, "ValueError")
  ELSE With(split(SubSeq(line, 2, Len(line) - 1), ","),
            LAMBDA parts :
              IF Len(parts) # 3 THEN Raise(h, "ValueError")
              ELSE loadParts(h, self, int(parts[1]), int(parts[2]), int(parts[3])))

\* the loop of _load_from_file over lines[2:], from the i-th line on
RECURSIVE loadLines(_, _, _, _)
loadLines(h, self, lines, i) ==
  IF i > Len(lines) THEN Ok(h)
  ELSE IF strip(lines[i]) = <<>> THEN loadLines(h, self, lines, i + 1)
  ELSE Then(loadLine(h, self, strip(lines[i])),
            LAMBDA h1 : loadLines(h1, self, lines, i + 1))

\* int(line.strip().split('=')[1])
headerValue(line) ==
  With(split(strip(line), "="),
       LAMBDA p : IF Len(p) < 2 THEN [exc |-> "IndexError", val |-> 0] ELSE int(p[2]))

\* the try block of _load_from_file, with the exception it ends with
loadBody(h, self, lines) ==
  IF Len(lines) < 2 THEN Raise(h, "ValueError")
  ELSE With(headerValue(lines[1]),
            LAMBDA r :
              IF r.exc # "none" THEN Raise(h, r.exc)
              ELSE With(headerValue(lines[2]),
                        LAMBDA c :
                          IF c.exc # "none"
                          THEN Raise([h EXCEPT !.objs[self].num_rows = r.val], c.exc)
                          ELSE loadLines([h EXCEPT !.objs[self].num_rows = r.val,
                                                   !.objs[self].num_cols = c.val],
                                         self, lines, 3)))

\* a _load_from_file that passes over the error of a line and keeps what it
\* has read (LoadAllOrNothing does not hold of it)
_load_from_file_lenient(h, self, lines) ==
  With(loadBody(h, self, lines), LAMBDA r : Ok(r.h))

\* except Exception as e: raise ValueError(...)
_load_from_file(h, self, lines) ==
  With(loadBody(h, self, lines),
       LAMBDA r : IF r.exc = "none" THEN r ELSE Raise(r.h, "ValueError"))

\* SparseMatrix(file_path, num_rows, num_cols); has_path: file_path is given,
\* lines: what readlines() gives for it
__init__(h, has_path, lines, num_rows, num_cols) ==
  With(FreshId(DOMAIN h.objs),
       LAMBDA self :
         With(IF has_path
              THEN _load_from_file(
                     Alloc(h, self, FreshId(DOMAIN h.dicts), num_rows, num_cols), self, lines)
              ELSE Ok(Alloc(h, self, FreshId(DOMAIN h.dicts), num_rows, num_cols)),
              LAMBDA r : [h |-> r.h, self |-> self, exc |-> r.exc]))

\* what result = ...; loop; return result gives: n is the construction of
\* result, r how the loop ended
Return(n, r) ==
  [h |-> r.h, result |-> IF r.exc = "none" THEN n.self ELSE None, exc |-> r.exc]

\* result.set_element(key[0], key[1], value(key)) for the keys from the i-th
\* on; result is instance res.  Each key is assigned once, so the order of
\* the keys does not show in the outcome.
RECURSIVE combineKeys(_, _, _, _, _, _, _)
combineKeys(h, res, self, other, keys, i, sign) ==
  IF i > Len(keys) THEN Ok(h)
  ELSE Then(set_element(h, res, keys[i][1], keys[i][2],
                        get_element(h, self, keys[i][1], keys[i][2])
                          + sign * get_element(h, other, keys[i][1], keys[i][2])),
            LAMBDA h1 : combineKeys(h1, res, self, other, keys, i + 1, sign))

\* an add that accumulates into self and returns it (OperandsUntouched does
\* not hold of it)
add_in_place(h, self, other) ==
  IF h.objs[self].num_rows # h.objs[other].num_rows
       \/ h.objs[self].num_cols # h.objs[other].num_cols
  THEN [h |-> h, result |-> None, exc |-> "ValueError"]
  ELSE Return([h |-> h, self |-> self, exc |-> "none"],
              combineKeys(h, self, self, other,
                          KeysInOrder((DOMAIN Data(h, self)) \cup (DOMAIN Data(h, other))),
                          1, 1))

add(h, self, other) ==
  IF h.objs[self].num_rows # h.objs[other].num_rows
       \/ h.objs[self].num_cols # h.objs[other].num_cols
  THEN [h |-> h, result |-> None, exc |-> "ValueError"]
  ELSE With(__init__(h, FALSE, <<>>, h.objs[self].num_rows, h.objs[self].num_cols),
            LAMBDA n :
              Return(n, combineKeys(n.h, n.self, self, other,
                                    KeysInOrder((DOMAIN Data(h, self))
                                                  \cup (DOMAIN Data(h, other))),
                                    1, 1)))

subtract(h, self, other) ==
  IF h.objs[self].num_rows # h.objs[other].num_rows
       \/ h.objs[self].num_cols # h.objs[other].num_cols
  THEN [h |-> h, result |-> None, exc |-> "ValueError"]
  ELSE With(__init__(h, FALSE, <<>>, h.objs[self].num_rows, h.objs[self].num_cols),
            LAMBDA n :
              Return(n, combineKeys(n.h, n.self, self, other,
                                    KeysInOrder((DOMAIN Data(h, self))
                                                  \cup (DOMAIN Data(h, other))),
                                    1, -1)))

\* the inner loop of multiply, for k in range(other.num_cols), from k on, for
\* the item (i, j) -> value of self
RECURSIVE multiplyCols(_, _, _, _, _, _, _)
multiplyCols(h, res, other, i, j, value, k) ==
  IF k >= h.objs[other].num_cols THEN Ok(h)
  ELSE IF <<j, k>> \in DOMAIN Data(h, other)
  THEN Then(set_element(h, res, i, k,
                        get_element(h, res, i, k) + value * get_element(h, other, j, k)),
            LAMBDA h1 : multiplyCols(h1, res, other, i, j, value, k + 1))
  ELSE multiplyCols(h, res, other, i, j, value, k + 1)

\* the outer loop of multiply over self.data.items(), which come in the
\* order items, from the n-th on
RECURSIVE multiplyItems(_, _, _, _, _, _)
multiplyItems(h, res, self, other, items, n) ==
  IF n > Len(items) THEN Ok(h)
  ELSE Then(multiplyCols(h, res, other, items[n][1], items[n][2],
                         Data(h, self)[items[n]], 0),
            LAMBDA h1 : multiplyItems(h1, res, self, other, items, n + 1))

\* items: the order in which self.data.items() iterates
multiply(h, self, other, items) ==
  IF h.objs[self].num_cols # h.objs[other].num_rows
  THEN [h |-> h, result |-> None, exc |-> "ValueError"]
  ELSE With(__init__(h, FALSE, <<>>, h.objs[self].num_rows, h.objs[other].num_cols),
            LAMBDA n : Return(n, multiplyItems(n.h, n.self, self, other, items, 1)))

\* str(matrix): one line, the items in the order items
RECURSIVE strItems(_, _, _)
strItems(d, items, n) ==
  IF n > Len(items) THEN <<>>
  ELSE (IF n > 1 THEN <<" ">> ELSE <<>>)
       \o <<"(">> \o str(items[n][1]) \o <<",", " ">> \o str(items[n][2])
       \o <<",", " ">> \o str(d[items[n]]) \o <<")">>
       \o strItems(d, items, n + 1)

__str__(h, self, items) ==
  <<"S", "p", "a", "r", "s", "e", "M", "a", "t", "r", "i", "x", " ">>
  \o str(h.objs[self].num_rows) \o <<"x">> \o str(h.objs[self].num_cols) \o <<":", " ">>
  \o strItems(Data(h, self), items, 1)

\* ------------------------------- src/matrix/code/src/main.py SparseMatrix
\* (its attribute elements is the field data of the instance)
max(a, b) == IF a >= b THEN a ELSE b

\* return int(parts[0]), int(parts[1]), int(parts[2])
parseParts(row, col, value) ==
  IF row.exc # "none" \/ col.exc # "none" \/ value.exc # "none"
  THEN [exc |-> "ValueError", row |-> 0, col |-> 0, value |-> 0]
  ELSE [exc |-> "none", row |-> row.val, col |-> col.val, value |-> value.val]

parse_line(line) ==
  IF ~(startswith(line, "(") /\ endswith(line, ")"))
  THEN [exc |-> "ValueError", row |-> 0, col |-> 0, value |-> 0]
  ELSE With(split(SubSeq(line, 2, Len(line) - 1), ","),
            LAMBDA parts :
              IF Len(parts) # 3
              THEN [exc |-> "ValueError", row |-> 0, col |-> 0, value |-> 0]
              ELSE parseParts(int(parts[1]), int(parts[2]), int(parts[3])))

\* the body of the loop of load_from_file, p being what parse_line gave
m_loadLine(h, self, p) ==
  IF p.exc # "none" THEN Raise(h, "ValueError")
  ELSE Ok([h EXCEPT !.objs[self].num_rows = max(@, p.row + 1),
                    !.objs[self].num_cols = max(@, p.col + 1),
                    !.dicts[h.objs[self].data] = Put(@, <<p.row, p.col>>, p.value)])

\* the loop of load_from_file over lines[2:], from the i-th line on
RECURSIVE m_loadLines(_, _, _, _)
m_loadLines(h, self, lines, i) ==
  IF i > Len(lines) THEN Ok(h)
  ELSE IF strip(lines[i]) = <<>> THEN m_loadLines(h, self, lines, i + 1)
  ELSE Then(m_loadLine(h, self, parse_line(strip(lines[i]))),
            LAMBDA h1 : m_loadLines(h1, self, lines, i + 1))

\* self.elements = {}, the dimensions reset to 0, then the loop
load_from_file(h, self, lines) ==
  m_loadLines(Alloc(h, self, FreshId(DOMAIN h.dicts), 0, 0), self, lines, 3)

m_init(h, has_path, lines, num_rows, num_cols) ==
  With(FreshId(DOMAIN h.objs),
       LAMBDA self :
         With(IF has_path THEN load_from_file(h, self, lines)
              ELSE Ok(Alloc(h, self, FreshId(DOMAIN h.dicts), num_rows, num_cols)),
              LAMBDA r : [h |-> r.h, self |-> self, exc |-> r.exc]))

m_get_element(h, self, row, col) ==
  IF <<row, col>> \in DOMAIN Data(h, self) THEN Data(h, self)[<<row, col>>] ELSE 0

m_set_element(h, self, row, col, value) ==
  IF row >= h.objs[self].num_rows \/ col >= h.objs[self].num_cols
  THEN Raise(h, "IndexError")
  ELSE Ok([h EXCEPT !.dicts[h.objs[self].data] = Put(@, <<row, col>>, value)])

\* for key, value in self.elements.items(): result.set_element(*key, value)
RECURSIVE copyItems(_, _, _, _, _)
copyItems(h, res, self, keys, i) ==
  IF i > Len(keys) THEN Ok(h)
  ELSE Then(m_set_element(h, res, keys[i][1], keys[i][2], Data(h, self)[keys[i]]),
            LAMBDA h1 : copyItems(h1, res, self, keys, i + 1))

\* for key, value in other.elements.items():
\*     result.set_element(*key, result.get_element(*key) + sign * value)
RECURSIVE mergeItems(_, _, _, _, _, _)
mergeItems(h, res, other, keys, i, sign) ==
  IF i > Len(keys) THEN Ok(h)
  ELSE Then(m_set_element(h, res, keys[i][1], keys[i][2],
                          m_get_element(h, res, keys[i][1], keys[i][2])
                            + sign * Data(h, other)[keys[i]]),
            LAMBDA h1 : mergeItems(h1, res, other, keys, i + 1, sign))

\* the two loops of __add__ (sign 1) and __sub__ (sign -1); each loop assigns
\* every key of its dict once, so the order of the keys does not show
addOrSub(h, self, other, sign) ==
  With(m_init(h, FALSE, <<>>,
              max(h.objs[self].num_rows, h.objs[other].num_rows),
              max(h.objs[self].num_cols, h.objs[other].num_cols)),
       LAMBDA n :
         Return(n, Then(copyItems(n.h, n.self, self, KeysInOrder(DOMAIN Data(h, self)), 1),
                        LAMBDA h1 : mergeItems(h1, n.self, other,
                                               KeysInOrder(DOMAIN Data(h, other)), 1, sign))))

__add__(h, self, other) == addOrSub(h, self, other, 1)

__sub__(h, self, other) == addOrSub(h, self, other, -1)

\* sum_value after for k in range(self.num_cols), from k on
RECURSIVE sumProducts(_, _, _, _, _, _, _)
sumProducts(h, self, other, i, j, k, sum_value) ==
  IF k >= h.objs[self].num_cols THEN sum_value
  ELSE sumProducts(h, self, other, i, j, k + 1,
                   sum_value + m_get_element(h, self, i, k) * m_get_element(h, other, k, j))

\* if sum_value != 0: result.set_element(i, j, sum_value)
setIfNonZero(h, res, i, j, sum_value) ==
  IF sum_value # 0 THEN m_set_element(h, res, i, j, sum_value) ELSE Ok(h)

\* the loops of __mul__ over i in range(self.num_rows) and
\* j in range(other.num_cols), from (i, j) on
RECURSIVE mulCells(_, _, _, _, _, _)
mulCells(h, res, self, other, i, j) ==
  IF i >= h.objs[self].num_rows THEN Ok(h)
  ELSE IF j >= h.objs[other].num_cols THEN mulCells(h, res, self, other, i + 1, 0)
  ELSE Then(setIfNonZero(h, res, i, j, sumProducts(h, self, other, i, j, 0, 0)),
            LAMBDA h1 : mulCells(h1, res, self, other, i, j + 1))

__mul__(h, self, other) ==
  IF h.objs[self].num_cols # h.objs[other].num_rows
  THEN [h |-> h, result |-> None, exc |-> "ValueError"]
  ELSE With(m_init(h, FALSE, <<>>, h.objs[self].num_rows, h.objs[other].num_cols),
            LAMBDA n : Return(n, mulCells(n.h, n.self, self, other, 0, 0)))

\* main: the lines written to <operation>_result.txt for instance self, its
\* items in the order items
RECURSIVE writeItems(_, _, _)
writeItems(d, items, n) ==
  IF n > Len(items) THEN <<>>
  ELSE << <<"(">> \o str(items[n][1]) \o <<",", " ">> \o str(items[n][2])
          \o <<",", " ">> \o str(d[items[n]]) \o <<")", "\n">> >>
       \o writeItems(d, items, n + 1)

write_result(h, self, items) ==
  << <<"r", "o", "w", "s", "=">> \o str(h.objs[self].num_rows) \o <<"\n">>,
     <<"c", "o", "l", "s", "=">> \o str(h.objs[self].num_cols) \o <<"\n">> >>
  \o writeItems(Data(h, self), items, 1)

\* ---------------------------------------------------------------- program
\* The caller of the class: main, which holds matrix1, matrix2 and result.
\* An exception leaves the variable being assigned as it was.
Slots == {"matrix1", "matrix2", "result"}

SlotVal(s) == CASE s = "matrix1" -> matrix1 [] s = "matrix2" -> matrix2 [] OTHER -> result

Idx == (0 - 1)..MaxIdx
Vals == (0 - MaxVal)..MaxVal

\* nothing has been given out for a result yet
NoFile == <<>>

NoOp == [op |-> "init", a |-> "", b |-> "", row |-> 0, col |-> 0, value |-> 0,
         file |-> 0, exc |-> "none"]

Init ==
  /\ impl \in {"main", "matrix"}
  /\ heap = EmptyHeap
  /\ matrix1 = None
  /\ matrix2 = None
  /\ result = None
  /\ output_file = NoFile
  /\ last = NoOp
  /\ steps = 0

\* SparseMatrix(...) of the running program
SparseMatrix(h, has_path, lines, num_rows, num_cols) ==
  IF impl = "main" THEN __init__(h, has_path, lines, num_rows, num_cols)
  ELSE m_init(h, has_path, lines, num_rows, num_cols)

\* main has loaded both matrices and is in its menu loop, with operations left
\* in this run
InMenu == matrix1 # None /\ matrix2 # None /\ steps < MaxSteps

\* s = v, for a variable s of main
Assign(s, v) ==
  /\ matrix1' = IF s = "matrix1" THEN v ELSE matrix1
  /\ matrix2' = IF s = "matrix2" THEN v ELSE matrix2
  /\ result' = IF s = "result" THEN v ELSE result

\* s = SparseMatrix(file_path): file f of Files, as main does for matrix1 and
\* then matrix2, or (f = 0) a file holding the text given out for a result
Load(s, f) ==
  /\ IF f = 0 THEN output_file # NoFile /\ InMenu
     ELSE SlotVal(s) = None /\ (s = "matrix2" => matrix1 # None)
  /\ \E r \in {SparseMatrix(heap, TRUE, IF f = 0 THEN output_file ELSE Files[f],
                            NoneAttr, NoneAttr)} :
       /\ IF r.exc = "none" THEN Assign(s, r.self)
          ELSE UNCHANGED <<matrix1, matrix2, result>>
       /\ heap' = Collect(r.h, {matrix1', matrix2', result'})
       /\ last' = [NoOp EXCEPT !.op = "load", !.a = s, !.file = f, !.exc = r.exc]
  /\ steps' = IF f = 0 THEN steps + 1 ELSE steps
  /\ UNCHANGED <<impl, output_file>>

\* s.set_element(row, col, value)
SetElement(s, row, col, value) ==
  /\ InMenu
  /\ SlotVal(s) # None
  /\ \E r \in {IF impl = "main" THEN set_element(heap, SlotVal(s), row, col, value)
               ELSE m_set_element(heap, SlotVal(s), row, col, value)} :
       /\ heap' = r.h
       /\ last' = [NoOp EXCEPT !.op = "set", !.a = s, !.row = row, !.col = col,
                               !.value = value, !.exc = r.exc]
  /\ steps' = steps + 1
  /\ UNCHANGED <<impl, matrix1, matrix2, result, output_file>>

\* The text main gives out for a result, as lines: in the program "main" what
\* print(result) writes, str(result) and a newline; in the program "matrix" the
\* result file.  The keys of a dict are distinct, so the lines of the result
\* file name distinct coordinates and their order does not show in what a load
\* makes of them: the items are written in ascending order.
Rendering(h, self) ==
  IF impl = "main"
  THEN << __str__(h, self, KeysInOrder(DOMAIN Data(h, self))) \o <<"\n">> >>
  ELSE write_result(h, self, KeysInOrder(DOMAIN Data(h, self)))

\* result = a.<op>(b), r being what the call gave; main then gives out the
\* result
Finish(op, a, b, r) ==
  /\ result' = IF r.exc = "none" THEN r.result ELSE result
  /\ heap' = Collect(r.h, {matrix1, matrix2, result'})
  /\ output_file' = IF r.exc = "none" THEN Rendering(r.h, r.result) ELSE output_file
  /\ last' = [NoOp EXCEPT !.op = op, !.a = a, !.b = b, !.exc = r.exc]
  /\ steps' = steps + 1
  /\ UNCHANGED <<impl, matrix1, matrix2>>

Add(a, b) ==
  /\ InMenu
  /\ \E r \in {IF impl = "main" THEN add(heap, SlotVal(a), SlotVal(b))
               ELSE __add__(heap, SlotVal(a), SlotVal(b))} :
       Finish("add", a, b, r)

Subtract(a, b) ==
  /\ InMenu
  /\ \E r \in {IF impl = "main" THEN subtract(heap, SlotVal(a), SlotVal(b))
               ELSE __sub__(heap, SlotVal(a), SlotVal(b))} :
       Finish("subtract", a, b, r)

\* in the program "main" the product is computed along the order items of a's dict
Multiply(a, b) ==
  /\ InMenu
  /\ \E r \in IF impl = "main"
              THEN {multiply(heap, SlotVal(a), SlotVal(b), items) :
                      items \in Orders(DOMAIN Data(heap, SlotVal(a)))}
              ELSE {__mul__(heap, SlotVal(a), SlotVal(b))} :
       Finish("multiply", a, b, r)

Next ==
  \/ \E s \in {"matrix1", "matrix2"}, f \in 0..Len(Files) : Load(s, f)
  \/ \E s \in Slots, row, col \in Idx, value \in Vals : SetElement(s, row, col, value)
  \/ \E a, b \in {"matrix1", "matrix2"} : Add(a, b)
  \/ \E a, b \in {"matrix1", "matrix2"} : Subtract(a, b)
  \/ \E a, b \in {"matrix1", "matrix2"} : Multiply(a, b)

Spec == Init /\ [][Next]_vars

\* ----------------------------------------------------------------- claims
\* the value the entry map of instance o of heap h gives for a coordinate
ValueAt(h, o, row, col) ==
  IF <<row, col>> \in DOMAIN Data(h, o) THEN Data(h, o)[<<row, col>>] ELSE 0

\* 0 <= row < numRows and 0 <= col < numCols for instance o
InBounds(h, o, row, col) ==
  /\ 0 <= row /\ row < h.objs[o].num_rows
  /\ 0 <= col /\ col < h.objs[o].num_cols

\* the non-zero part of the entry map of instance o
NonZero(h, o) ==
  [k \in {x \in DOMAIN Data(h, o) : Data(h, o)[x] # 0} |-> Data(h, o)[k]]

Arithmetic == {"add", "subtract", "multiply"}

\* the lines the last load read
LoadedLines == IF last.file = 0 THEN output_file ELSE Files[last.file]

\* the instance in the variable the last operation was applied to
LoadedInstance == SlotVal(last.a)

\* C1: no entry map of any matrix instance holds a coordinate whose value is 0
ZeroSuppression ==
  \A o \in DOMAIN heap.objs : \A k \in DOMAIN Data(heap, o) : Data(heap, o)[k] # 0

\* C2: after set_element(row, col, v) on an in-bounds coordinate, get_element
\* gives v, and for v = 0 the coordinate is absent from the entry map
SetThenGet ==
  (last.op = "set" /\ InBounds(heap, SlotVal(last.a), last.row, last.col))
    => /\ last.exc = "none"
       /\ (IF impl = "main" THEN get_element(heap, SlotVal(last.a), last.row, last.col)
           ELSE m_get_element(heap, SlotVal(last.a), last.row, last.col)) = last.value
       /\ last.value = 0 => <<last.row, last.col>> \notin DOMAIN Data(heap, SlotVal(last.a))

\* C3: set_element raises IndexError exactly for the coordinates that are not
\* in bounds, whatever the value, and then leaves every matrix as it was
SetBoundsChecked ==
  [][last'.op = "set"
       => /\ (last'.exc = "IndexError")
               <=> ~InBounds(heap, SlotVal(last'.a), last'.row, last'.col)
          /\ last'.exc = "none" <=> InBounds(heap, SlotVal(last'.a), last'.row, last'.col)
          /\ ~InBounds(heap, SlotVal(last'.a), last'.row, last'.col) => heap' = heap]_vars

\* the operands of the last arithmetic operation do not fit it
Mismatch(h, op, a, b) ==
  IF op = "multiply" THEN h.objs[a].num_cols # h.objs[b].num_rows
  ELSE h.objs[a].num_rows # h.objs[b].num_rows \/ h.objs[a].num_cols # h.objs[b].num_cols

\* C4: add and subtract of operands of different dimensions, and multiply of
\* operands whose inner dimensions differ, raise the dimension error and give
\* no result matrix
DimensionChecked ==
  [][(last'.op \in Arithmetic /\ Mismatch(heap, last'.op, SlotVal(last'.a), SlotVal(last'.b)))
       => /\ last'.exc = "ValueError"
          /\ result' = result
          /\ heap' = heap]_vars

\* a.get(c) + sign * b.get(c)
Combined(h, a, b, c, sign) == ValueAt(h, a, c[1], c[2]) + sign * ValueAt(h, b, c[1], c[2])

\* the entry map of the sum (sign 1) or difference (sign -1) of a and b
CombinedMap(h, a, b, sign) ==
  [c \in {x \in (DOMAIN Data(h, a)) \cup (DOMAIN Data(h, b)) : Combined(h, a, b, x, sign) # 0}
     |-> Combined(h, a, b, c, sign)]

\* C5: the sum (difference) of two matrices of the same dimensions has those
\* dimensions, and its entry map holds exactly the coordinates where the sum
\* (difference) of the operands' values is not 0, with that value
AddSubtractExact ==
  (last.op \in {"add", "subtract"}
     /\ ~Mismatch(heap, last.op, SlotVal(last.a), SlotVal(last.b)))
    => /\ last.exc = "none"
       /\ heap.objs[result].num_rows = heap.objs[SlotVal(last.a)].num_rows
       /\ heap.objs[result].num_cols = heap.objs[SlotVal(last.a)].num_cols
       /\ Data(heap, result)
            = CombinedMap(heap, SlotVal(last.a), SlotVal(last.b),
                          IF last.op = "add" THEN 1 ELSE -1)

\* the sum over j in 0 .. n-1 of a.get(i, j) * b.get(j, k)
RECURSIVE Dot(_, _, _, _, _, _)
Dot(h, a, b, i, k, n) ==
  IF n <= 0 THEN 0
  ELSE Dot(h, a, b, i, k, n - 1) + ValueAt(h, a, i, n - 1) * ValueAt(h, b, n - 1, k)

\* the coordinates of an r x s matrix
Cells(r, s) == (0..(r - 1)) \X (0..(s - 1))

\* the entry map of the product of a and b
ProductMap(h, a, b) ==
  [c \in {x \in Cells(h.objs[a].num_rows, h.objs[b].num_cols) :
            Dot(h, a, b, x[1], x[2], h.objs[a].num_cols) # 0}
     |-> Dot(h, a, b, c[1], c[2], h.objs[a].num_cols)]

\* C6: the product of a (r x c) and b (c x s) is r x s, and its entry map holds
\* exactly the coordinates where the matrix product is not 0, with that sum
MultiplyExact ==
  (last.op = "multiply" /\ ~Mismatch(heap, "multiply", SlotVal(last.a), SlotVal(last.b)))
    => /\ last.exc = "none"
       /\ heap.objs[result].num_rows = heap.objs[SlotVal(last.a)].num_rows
       /\ heap.objs[result].num_cols = heap.objs[SlotVal(last.b)].num_cols
       /\ Data(heap, result) = ProductMap(heap, SlotVal(last.a), SlotVal(last.b))

\* C6 witness: a product entry that is not 0 although two of its partial
\* products cancel (on the way the running sum is 0 again)
MultiplyThroughZero ==
  /\ last.op = "multiply" /\ last.exc = "none"
  /\ \E c \in DOMAIN Data(heap, result) :
       \E j1, j2 \in 0..(heap.objs[SlotVal(last.a)].num_cols - 1) :
         /\ j1 < j2
         /\ ValueAt(heap, SlotVal(last.a), c[1], j1) * ValueAt(heap, SlotVal(last.b), j1, c[2]) # 0
         /\ ValueAt(heap, SlotVal(last.a), c[1], j1) * ValueAt(heap, SlotVal(last.b), j1, c[2])
              + ValueAt(heap, SlotVal(last.a), c[1], j2)
                  * ValueAt(heap, SlotVal(last.b), j2, c[2]) = 0

\* C7: an arithmetic operation leaves its operands as they were and gives a
\* new instance with a new entry map; set_element on one instance leaves the
\* entry maps of the other instances as they were
OperandsUntouched ==
  [][/\ last'.op \in Arithmetic
          => /\ \A o \in DOMAIN heap.objs :
                  o \in {matrix1, matrix2}
                    => o \in DOMAIN heap'.objs /\ heap'.objs[o] = heap.objs[o]
                       /\ Data(heap', o) = Data(heap, o)
             /\ last'.exc = "none"
                  => /\ result' \notin DOMAIN heap.objs
                     /\ heap'.objs[result'].data \notin DOMAIN heap.dicts
                     /\ \A o \in DOMAIN heap'.objs :
                          o # result' => heap'.objs[o].data # heap'.objs[result'].data
     /\ last'.op = "set"
          => \A o \in DOMAIN heap.objs :
               o # SlotVal(last'.a)
                 => heap'.objs[o] = heap.objs[o] /\ Data(heap', o) = Data(heap, o)]_vars

\* C7 witness: set_element has changed the result of an operation
ResultChanged ==
  /\ last.op = "set" /\ last.a = "result" /\ last.exc = "none"
  /\ <<last.row, last.col>> \in DOMAIN Data(heap, result)
  /\ \E o \in {matrix1, matrix2} : <<last.row, last.col>> \notin DOMAIN Data(heap, o)

\* line i of lines is blank, or a well-formed triple whose value (that of the
\* last line with its coordinate) is what instance o of heap h holds there
LineApplied(h, o, lines, i) ==
  \/ strip(lines[i]) = <<>>
  \/ /\ parse_line(strip(lines[i])).exc = "none"
     /\ \E j \in i..Len(lines) :
          /\ parse_line(strip(lines[j])).exc = "none"
          /\ parse_line(strip(lines[j])).row = parse_line(strip(lines[i])).row
          /\ parse_line(strip(lines[j])).col = parse_line(strip(lines[i])).col
          /\ ValueAt(h, o, parse_line(strip(lines[i])).row, parse_line(strip(lines[i])).col)
               = parse_line(strip(lines[j])).value

DeclaresDims(lines, r, c) ==
  /\ Len(lines) >= 2
  /\ headerValue(lines[1]) = [exc |-> "none", val |-> r]
  /\ headerValue(lines[2]) = [exc |-> "none", val |-> c]

\* lines has well-formed header lines and entry lines that are blank or
\* well-formed triples, one of them outside the declared dimensions
HasOutOfBoundsTriple(lines) ==
  \E r, c \in 0..3 :
    /\ DeclaresDims(lines, r, c)
    /\ \A i \in 3..Len(lines) :
         strip(lines[i]) = <<>> \/ parse_line(strip(lines[i])).exc = "none"
    /\ \E i \in 3..Len(lines) :
         /\ strip(lines[i]) # <<>>
         /\ ~(/\ 0 <= parse_line(strip(lines[i])).row /\ parse_line(strip(lines[i])).row < r
              /\ 0 <= parse_line(strip(lines[i])).col /\ parse_line(strip(lines[i])).col < c)

\* C9: a load of a file with a well-formed triple outside the declared
\* dimensions fails with an IndexError
LoadOutOfBoundsIsIndexError ==
  (last.op = "load" /\ HasOutOfBoundsTriple(LoadedLines)) => last.exc = "IndexError"

\* C10: the text given out for a result (str(result), the result file) loads
\* into a matrix with the dimensions and the non-zero entries of that result
RoundTrip ==
  (/\ last.op = "load" /\ last.file = 0
   /\ result # None
   /\ output_file = Rendering(heap, result))
    => /\ last.exc = "none"
       /\ heap.objs[SlotVal(last.a)].num_rows = heap.objs[result].num_rows
       /\ heap.objs[SlotVal(last.a)].num_cols = heap.objs[result].num_cols
       /\ NonZero(heap, SlotVal(last.a)) = NonZero(heap, result)

====
